---- MODULE Spec2Model ----
(***************************************************************************)
(* gpg_exchange.exchange.Exchange: a facade over one GPGME context.        *)
(* The facade's own code (argument normalisation, buffer scoping, result   *)
(* classification, error translation) is modelled statement by statement;  *)
(* the engine behind self._gpg (keyring, import, export, encrypt, decrypt) *)
(* is modelled by the behaviour of the calls the facade makes.             *)
(***************************************************************************)
EXTENDS Integers, Sequences, FiniteSets, TLC

VARIABLES
    args,      \* the constructor's arguments (armor, home_dir, passphrase)
    gpg,       \* self._gpg: the configuration of the engine context
    keyring,   \* the engine's keyring, in listing order
    open,      \* engine data handles acquired and not yet released
    last       \* the last call: operation, inputs, outcome, effects

vars == <<args, gpg, keyring, open, last>>

(* ------------------------------ bounds --------------------------------- *)
MaxPayload == 2      \* key blocks in one import payload
MaxRecipients == 2   \* keys in one recipients list
MaxCount == 2        \* a count of an import result the engine may answer
MaxImports == 1      \* entries in the imports list of such a result

(* ------------------------------ values --------------------------------- *)
None == "None"

\* The key with a secret part that a keyring may hold from the start.
Me == [fpr |-> "F0", uid |-> "me", secret |-> TRUE, trusted |-> TRUE]

\* Public keys that arrive in import payloads. They share a user id.
PubKey(f) == [fpr |-> f, uid |-> "alice", secret |-> FALSE, trusted |-> FALSE]

ImportableFprs == {"F1", "F3"}

\* One block of a payload: a valid public key, or bytes that are no OpenPGP
\* data.
Blocks == ImportableFprs \cup {"junk"}

RECURSIVE SeqsUpTo(_, _)
SeqsUpTo(S, n) ==
    IF n = 0 THEN {<<>>}
    ELSE LET shorter == SeqsUpTo(S, n - 1)
         IN  shorter \cup {Append(s, x) : s \in shorter, x \in S}

Payloads == SeqsUpTo(Blocks, MaxPayload)

Patterns == {"F1", "F3", "me", "alice", "nobody"}

Passphrases == {"pw1", "pw2"}

\* What is typed into the agent's prompt when no callback is registered.
AgentPassphrase == "pw2"

Texts == {"hello world"}

Range(s) == {s[i] : i \in 1..Len(s)}

(* ------------------------- outcomes of a call -------------------------- *)
Return(v) == [kind |-> "return", value |-> v]
Raise(exc, a) == [kind |-> "raise", exc |-> exc, args |-> a]

(* ----------------------------- constructor ----------------------------- *)
\* gpg.Context(armor=armor): home_dir and pinentry_mode start at the engine's
\* defaults and no passphrase callback is registered.
NewContext(armor) ==
    [armor |-> armor, home_dir |-> None, pinentry_mode |-> "default",
     passphrase_cb |-> None]

Construct_AlwaysLoopback(a) ==
    LET c0 == NewContext(a.armor)
        c1 == IF a.home_dir # None THEN [c0 EXCEPT !.home_dir = a.home_dir] ELSE c0
    IN  [c1 EXCEPT !.pinentry_mode = "loopback", !.passphrase_cb = a.passphrase]

Construct(a) ==
    LET c0 == NewContext(a.armor)
        c1 == IF a.home_dir # None THEN [c0 EXCEPT !.home_dir = a.home_dir] ELSE c0
    IN  IF a.passphrase # None
        THEN [c1 EXCEPT !.pinentry_mode = "loopback", !.passphrase_cb = a.passphrase]
        ELSE c1

CtorArgs ==
    [armor : BOOLEAN, home_dir : {None, "/srv/gnupg"},
     passphrase : {None, "pw1"}]

(* ------------------------------ find_key ------------------------------- *)
\* self._gpg.keylist(pattern): the keyring's entries whose fingerprint or
\* user id the pattern names, in listing order.
Matches(key, pattern) == key.fpr = pattern \/ key.uid = pattern

Keylist(ring, pattern) == SelectSeq(ring, LAMBDA k : Matches(k, pattern))

find_key_Last(ring, pattern) ==
    LET listing == Keylist(ring, pattern)
    IN  IF listing = <<>> THEN Raise("KeyError", <<pattern>>)
        ELSE Return(listing[Len(listing)])

find_key(ring, pattern) ==
    LET listing == Keylist(ring, pattern)
    IN  IF listing = <<>> THEN Raise("KeyError", <<pattern>>)
        ELSE Return(Head(listing))

(* ----------------------------- data buffers ---------------------------- *)
Acquire(h) == [ev |-> "acquire", h |-> h]
Use(h) == [ev |-> "use", h |-> h]
Release(h) == [ev |-> "release", h |-> h]

\* A body of a with block: the buffer events it made and how it ended.
Body(events, outcome) == [events |-> events, outcome |-> outcome]

\* with gpg.Data(...) as name: body -- __exit__ releases the handle the
\* object wraps however the body ends.
WithData(h, body) ==
    Body(<<Acquire(h)>> \o body.events \o <<Release(h)>>, body.outcome)

\* with gpg.Data() as name: name.new_from_fd(f); body -- Data() wraps a new
\* memory handle, new_from_fd wraps a second handle over the descriptor in
\* its place, and __exit__ releases the handle wrapped at that time.
WithDataFromFd(h, body) ==
    Body(<<Acquire(h \o ".mem"), Acquire(h \o ".fd")>> \o body.events
            \o <<Release(h \o ".fd")>>,
         body.outcome)

\* The handles a trace of events leaves acquired.
RECURSIVE Held(_, _)
Held(events, held) ==
    IF events = <<>> THEN held
    ELSE LET e == Head(events)
         IN  Held(Tail(events),
                  IF e.ev = "acquire" THEN held \cup {e.h}
                  ELSE IF e.ev = "release" THEN held \ {e.h}
                  ELSE held)

\* Some event of the trace uses a handle that is not acquired at that point.
UsedWhileReleased(events) ==
    \E i \in 1..Len(events) :
        /\ events[i].ev = "use"
        /\ events[i].h \notin Held(SubSeq(events, 1, i - 1), {})

\* An engine buffer: what was written to it and where its position is.
Buffer(content, atEnd) == [content |-> content, atEnd |-> atEnd]

_read_data_NoSeek(data) ==
    IF data.atEnd THEN [kind |-> "text", text |-> ""] ELSE data.content

\* data.seek(0, os.SEEK_SET); return data.read()
_read_data(data) ==
    LET rewound == [data EXCEPT !.atEnd = FALSE]
    IN  IF rewound.atEnd THEN [kind |-> "text", text |-> ""] ELSE rewound.content

(* ------------------------- the engine: import -------------------------- *)
NoKeys == [considered |-> 0, imported |-> 0, unchanged |-> 0, imports |-> <<>>]

\* One key block of the payload, as gpg imports it: bytes that are no key
\* block are not considered; a key the keyring holds is considered and left
\* as it is; a new key is considered and stored at the end of the keyring.
ImportBlock(st, block) ==
    LET r == st.result
    IN  IF block = "junk" THEN st
        ELSE IF \E k \in Range(st.ring) : k.fpr = block THEN
            [st EXCEPT !.result =
                [r EXCEPT !.considered = @ + 1, !.unchanged = @ + 1,
                          !.imports = Append(@, [fpr |-> block, status |-> "unchanged"])]]
        ELSE
            [ring |-> Append(st.ring, PubKey(block)),
             result |->
                [r EXCEPT !.considered = @ + 1, !.imported = @ + 1,
                          !.imports = Append(@, [fpr |-> block, status |-> "new"])]]

RECURSIVE ImportBlocks(_, _)
ImportBlocks(st, payload) ==
    IF payload = <<>> THEN st
    ELSE ImportBlocks(ImportBlock(st, Head(payload)), Tail(payload))

\* self._gpg.op_import(data): every key block of the payload is processed;
\* the call answers with the keyring as it left it and the import result.
op_import(ring, payload) == ImportBlocks([ring |-> ring, result |-> NoKeys], payload)

(* ----------------------------- import_key ------------------------------ *)
\* str(error) of the error the lookup of the imported key ended with.
NoImports == "list index out of range"

_get_imported_key(ring, import_result) ==
    IF import_result.imports = <<>>
    THEN Raise("ValueError", [msg |-> NoImports, detail |-> import_result])
    ELSE LET fpr == import_result.imports[1].fpr
             found == find_key(ring, fpr)
         IN  IF found.kind = "raise"
             THEN Raise("ValueError", [msg |-> fpr, detail |-> import_result])
             ELSE found

NotOne == "Exactly one public key must be provided"
NotValid == "Given public key must be valid"

Classify_ImportedFirst(ring, result) ==
    IF result.imported # 1
    THEN Raise("ValueError", [msg |-> NotValid, detail |-> result])
    ELSE IF result.considered # 1
    THEN Raise("ValueError", [msg |-> NotOne, detail |-> result])
    ELSE LET key == _get_imported_key(ring, result)
         IN  IF key.kind = "raise" THEN key ELSE Return(<<key.value, result>>)

Classify_AtLeastOne(ring, result) ==
    IF result.considered < 1
    THEN Raise("ValueError", [msg |-> NotOne, detail |-> result])
    ELSE IF result.imported < 1
    THEN Raise("ValueError", [msg |-> NotValid, detail |-> result])
    ELSE LET key == _get_imported_key(ring, result)
         IN  IF key.kind = "raise" THEN key ELSE Return(<<key.value, result>>)

\* The statements of import_key after the with block: the checks of the
\* import result and the lookup of the imported key, against the keyring as
\* op_import left it.
Classify(ring, result) ==
    IF result.considered # 1
    THEN Raise("ValueError", [msg |-> NotOne, detail |-> result])
    ELSE IF result.imported # 1
    THEN Raise("ValueError", [msg |-> NotValid, detail |-> result])
    ELSE LET key == _get_imported_key(ring, result)
         IN  IF key.kind = "raise" THEN key ELSE Return(<<key.value, result>>)

EngineError(code) == Raise("GPGMEError", [code |-> code])

\* import_key given what op_import did to the keyring and answered: the
\* with block around the engine's call, then the classification.
import_key_after(engine) ==
    LET block == WithData("import_key",
                     Body(<<Use("import_key")>>, Return(engine.result)))
    IN  [ring |-> engine.ring,
         events |-> block.events,
         result |-> engine.result,
         outcome |-> Classify(engine.ring, block.outcome.value)]

import_key(ring, pubkey) == import_key_after(op_import(ring, pubkey))

(* ----------------------------- export_key ------------------------------ *)
EmptyText == [kind |-> "text", text |-> ""]

\* self._gpg.op_export(pattern, 0, sink): the public parts of the matching
\* keys are written to the sink; nothing is written when no key matches.
op_export(ring, armor, pattern) ==
    LET listing == Keylist(ring, pattern)
    IN  IF listing = <<>> THEN EmptyText
        ELSE [kind |-> "keys", armored |-> armor,
              fprs |-> [i \in 1..Len(listing) |-> listing[i].fpr]]

export_key_Deleting(ring, ctx, pattern) ==
    LET block == WithData("export_key",
                     Body(<<Use("export_key"), Use("export_key")>>,
                          Return(_read_data(
                              Buffer(op_export(ring, ctx.armor, pattern), TRUE)))))
    IN  [ring |-> SelectSeq(ring, LAMBDA k : ~Matches(k, pattern)),
         events |-> block.events, outcome |-> block.outcome]

export_key(ring, ctx, pattern) ==
    LET block == WithData("export_key",
                     Body(<<Use("export_key"), Use("export_key")>>,
                          Return(_read_data(
                              Buffer(op_export(ring, ctx.armor, pattern), TRUE)))))
    IN  [ring |-> ring, events |-> block.events, outcome |-> block.outcome]

(* ------------------------------ encryption ----------------------------- *)
\* The values the recipients argument takes: None, one Key, a list or a
\* tuple of Keys.
NoRecipients == [kind |-> "none"]
OneKey(k) == [kind |-> "key", key |-> k]
Several(kind, keys) == [kind |-> kind, elems |-> keys]

\* The keys of the keyring that callers encrypt to.
RecipientKeys(ring) == {k \in Range(ring) : k.fpr \in {"F0", "F1"}}

RecipientValues(ring) ==
    {NoRecipients}
        \cup {OneKey(k) : k \in RecipientKeys(ring)}
        \cup {Several(kind, keys) :
                kind \in {"list", "tuple"},
                keys \in SeqsUpTo(RecipientKeys(ring), MaxRecipients)}

Normalize_FirstOnly(recipients) ==
    IF recipients.kind = "none" THEN Several("list", <<>>)
    ELSE IF recipients.kind \notin {"list", "tuple"}
    THEN Several("list", <<recipients.key>>)
    ELSE IF recipients.elems = <<>> THEN recipients
    ELSE Several(recipients.kind, <<Head(recipients.elems)>>)

\* The first statements of _encrypt: None becomes the empty list, a value
\* that is neither list nor tuple becomes a list of that one value.
Normalize(recipients) ==
    IF recipients.kind = "none" THEN Several("list", <<>>)
    ELSE IF recipients.kind \notin {"list", "tuple"}
    THEN Several("list", <<recipients.key>>)
    ELSE recipients

\* The passphrase the engine obtains: from the registered callback in
\* loopback mode, otherwise what is typed into the agent's prompt.
Passphrase(ctx) ==
    IF ctx.passphrase_cb # None THEN ctx.passphrase_cb ELSE AgentPassphrase

SecretKeys(ring) == SelectSeq(ring, LAMBDA k : k.secret)

\* self._gpg.encrypt(plaintext, recipients, sink=..., always_trust=...):
\* the call signs with the keyring's first secret key (sign defaults to
\* true), refuses a recipient that is not trusted unless always_trust is
\* set, encrypts to the recipients, or to a passphrase when there are none,
\* and writes the message to the sink.
engine_encrypt(ring, ctx, text, recipients, always_trust) ==
    IF SecretKeys(ring) = <<>> THEN EngineError("UNUSABLE_SECKEY")
    ELSE IF ~always_trust /\ \E k \in Range(recipients.elems) : ~k.trusted
    THEN EngineError("UNUSABLE_PUBKEY")
    ELSE Return(
            [kind |-> "pgp",
             armored |-> ctx.armor,
             plain |-> text,
             recips |-> {k.fpr : k \in Range(recipients.elems)},
             pass |-> IF recipients.elems = <<>> THEN Passphrase(ctx) ELSE None,
             signer |-> Head(SecretKeys(ring)).fpr,
             corrupt |-> FALSE])

\* _encrypt: the recipients handed to the engine and how the engine's call
\* ended.
_encrypt(ring, ctx, text, recipients, always_trust) ==
    LET list == Normalize(recipients)
    IN  [recipients |-> list,
         outcome |-> engine_encrypt(ring, ctx, text, list, always_trust)]

encrypt_text(ring, ctx, data, recipients, always_trust) ==
    LET call == _encrypt(ring, ctx, data.text, recipients, always_trust)
        inner == IF call.outcome.kind = "raise"
                 THEN Body(<<Use("plaintext"), Use("ciphertext")>>, call.outcome)
                 ELSE Body(<<Use("plaintext"), Use("ciphertext"), Use("ciphertext")>>,
                           Return(_read_data(Buffer(call.outcome.value, TRUE))))
        block == WithData("plaintext", WithData("ciphertext", inner))
    IN  [ring |-> ring, events |-> block.events, outcome |-> block.outcome,
         recipients |-> call.recipients, written |-> EmptyText]

encrypt_file(ring, ctx, input, recipients, always_trust) ==
    LET call == _encrypt(ring, ctx, input.text, recipients, always_trust)
        inner == Body(<<Use("plaintext.fd"), Use("ciphertext.fd")>>,
                      IF call.outcome.kind = "raise" THEN call.outcome
                      ELSE Return(None))
        block == WithDataFromFd("plaintext", WithDataFromFd("ciphertext", inner))
    IN  [ring |-> ring, events |-> block.events, outcome |-> block.outcome,
         recipients |-> call.recipients,
         written |-> IF call.outcome.kind = "raise" THEN EmptyText
                     ELSE call.outcome.value]

(* ------------------------------ decryption ----------------------------- *)
\* self._gpg.decrypt(ciphertext, sink): input that holds no OpenPGP message
\* fails with NO_DATA; a damaged message, a message to keys whose secret
\* part the keyring lacks and a wrong passphrase fail with their own codes;
\* a decrypted message signed by a key the keyring lacks fails the
\* verification (verify defaults to true), which is no GPGMEError.
engine_decrypt(ring, ctx, data) ==
    IF data.kind # "pgp" THEN EngineError("NO_DATA")
    ELSE IF data.corrupt THEN EngineError("DECRYPT_FAILED")
    ELSE IF data.recips # {}
            /\ ~\E k \in Range(ring) : k.secret /\ k.fpr \in data.recips
    THEN EngineError("NO_SECKEY")
    ELSE IF data.recips = {} /\ Passphrase(ctx) # data.pass
    THEN EngineError("BAD_PASSPHRASE")
    ELSE IF data.signer # None /\ ~\E k \in Range(ring) : k.fpr = data.signer
    THEN Raise("BadSignatures", [signer |-> data.signer])
    ELSE Return([kind |-> "text", text |-> data.plain])

NoData == "No encrypted data"

_decrypt_Swallow(ring, ctx, data) ==
    LET done == engine_decrypt(ring, ctx, data)
    IN  IF done.kind = "raise" /\ done.exc = "GPGMEError"
        THEN IF done.args.code = "NO_DATA"
             THEN Raise("ValueError", [msg |-> NoData])
             ELSE Return(EmptyText)
        ELSE done

\* _decrypt: a GPGMEError with code NO_DATA becomes a ValueError, any other
\* error is raised again as it is.
_decrypt(ring, ctx, data) ==
    LET done == engine_decrypt(ring, ctx, data)
    IN  IF done.kind = "raise" /\ done.exc = "GPGMEError"
        THEN IF done.args.code = "NO_DATA"
             THEN Raise("ValueError", [msg |-> NoData])
             ELSE done
        ELSE done

decrypt_text(ring, ctx, data) ==
    LET done == _decrypt(ring, ctx, data)
        block == WithData("sink",
                    IF done.kind = "raise" THEN Body(<<Use("sink")>>, done)
                    ELSE Body(<<Use("sink"), Use("sink")>>,
                              Return(_read_data(Buffer(done.value, TRUE)))))
    IN  [ring |-> ring, events |-> block.events, outcome |-> block.outcome,
         written |-> EmptyText]

decrypt_file(ring, ctx, input) ==
    LET done == _decrypt(ring, ctx, input)
        inner == Body(<<Use("ciphertext.fd"), Use("plaintext.fd")>>,
                      IF done.kind = "raise" THEN done ELSE Return(None))
        block == WithDataFromFd("ciphertext", WithDataFromFd("plaintext", inner))
    IN  [ring |-> ring, events |-> block.events, outcome |-> block.outcome,
         written |-> IF done.kind = "raise" THEN EmptyText ELSE done.value]

\* Data handed to decryption from outside: plain text, and messages to a
\* passphrase, to the keyring's own key or to another key, signed or not,
\* intact or damaged.
Message(recips, pass, signer, corrupt) ==
    [kind |-> "pgp", armored |-> TRUE, plain |-> "hello world", recips |-> recips,
     pass |-> pass, signer |-> signer, corrupt |-> corrupt]

ReceivedData ==
    {[kind |-> "text", text |-> t] : t \in Texts}
        \cup {Message({}, "pw1", None, FALSE),
              Message({}, "pw2", None, FALSE),
              Message({"F0"}, None, None, FALSE),
              Message({"F0"}, None, "F9", FALSE),
              Message({"F0"}, None, None, TRUE),
              Message({"F2"}, None, None, FALSE)}

(* ------------------------------- the calls ----------------------------- *)
Init ==
    /\ args \in CtorArgs
    /\ gpg = Construct(args)
    /\ keyring \in {<<>>, <<Me>>}
    /\ open = {}
    /\ last = [op |-> "construct", before |-> keyring, events |-> <<>>]

FindKey ==
    \E pattern \in Patterns :
        /\ last' = [op |-> "find_key", pattern |-> pattern, before |-> keyring,
                    events |-> <<>>, outcome |-> find_key(keyring, pattern)]
        /\ UNCHANGED <<args, gpg, keyring, open>>

\* What a call of import_key leaves behind.
Imported(before, pubkey, done) ==
    /\ keyring' = done.ring
    /\ open' = open \cup Held(done.events, {})
    /\ last' = [op |-> "import_key", pubkey |-> pubkey, before |-> before,
                result |-> done.result,
                events |-> done.events, outcome |-> done.outcome]
    /\ UNCHANGED <<args, gpg>>

ImportKey ==
    \E pubkey \in Payloads : Imported(keyring, pubkey, import_key(keyring, pubkey))

ExportKey ==
    \E pattern \in Patterns :
        LET done == export_key(keyring, gpg, pattern)
        IN  /\ keyring' = done.ring
            /\ open' = open \cup Held(done.events, {})
            /\ last' = [op |-> "export_key", pattern |-> pattern, before |-> keyring,
                        events |-> done.events, outcome |-> done.outcome]
            /\ UNCHANGED <<args, gpg>>

\* What a call of encrypt_text or encrypt_file leaves behind.
Encrypted(op, plain, recipients, always_trust, done) ==
    /\ keyring' = done.ring
    /\ open' = open \cup Held(done.events, {})
    /\ last' = [op |-> op, data |-> plain, before |-> keyring,
                recipients |-> recipients,
                passed |-> done.recipients, written |-> done.written,
                events |-> done.events, outcome |-> done.outcome]
    /\ UNCHANGED <<args, gpg>>

EncryptText ==
    \E data \in Texts, recipients \in RecipientValues(keyring),
       always_trust \in BOOLEAN :
        LET plain == [kind |-> "text", text |-> data]
        IN  Encrypted("encrypt_text", plain, recipients, always_trust,
                encrypt_text(keyring, gpg, plain, recipients, always_trust))

EncryptFile ==
    \E data \in Texts, recipients \in RecipientValues(keyring),
       always_trust \in BOOLEAN :
        LET plain == [kind |-> "text", text |-> data]
        IN  Encrypted("encrypt_file", plain, recipients, always_trust,
                encrypt_file(keyring, gpg, plain, recipients, always_trust))

\* Data that did not come from this object's encrypt_text.
NoOrigin == [valid |-> FALSE]

\* What a caller may hand to decrypt_text: received data, or what
\* encrypt_text returns in this context for a plaintext and recipients.
Sources ==
    {[data |-> d, origin |-> NoOrigin] : d \in ReceivedData}
        \cup {[data |-> made.outcome.value,
               origin |-> [valid |-> TRUE, plain |-> made.plain,
                           recipients |-> made.recipients]] :
                made \in {m \in {[plain |-> [kind |-> "text", text |-> t],
                                  recipients |-> r,
                                  outcome |-> encrypt_text(keyring, gpg,
                                      [kind |-> "text", text |-> t], r, TRUE).outcome] :
                                 t \in Texts, r \in RecipientValues(keyring)} :
                            m.outcome.kind = "return"}}

\* What a call of decrypt_text or decrypt_file leaves behind.
Decrypted(op, src, done) ==
    /\ keyring' = done.ring
    /\ open' = open \cup Held(done.events, {})
    /\ last' = [op |-> op, data |-> src.data, origin |-> src.origin,
                before |-> keyring,
                engine |-> engine_decrypt(keyring, gpg, src.data),
                written |-> done.written,
                events |-> done.events, outcome |-> done.outcome]
    /\ UNCHANGED <<args, gpg>>

DecryptText ==
    \E src \in Sources :
        Decrypted("decrypt_text", src, decrypt_text(keyring, gpg, src.data))

DecryptFile ==
    \E data \in ReceivedData :
        Decrypted("decrypt_file", [data |-> data, origin |-> NoOrigin],
                  decrypt_file(keyring, gpg, data))

Next ==
    \/ FindKey
    \/ ImportKey
    \/ ExportKey
    \/ EncryptText
    \/ EncryptFile
    \/ DecryptText
    \/ DecryptFile

Spec == Init /\ [][Next]_vars

(* ---------------- import_key over every answer of the engine ----------- *)
\* The import results an engine may answer with, consistent with what it
\* did to the keyring or not.
ImportResults ==
    [considered : 0..MaxCount, imported : 0..MaxCount, unchanged : {0},
     imports : SeqsUpTo({[fpr |-> f, status |-> "new"] :
                            f \in ImportableFprs \cup {"F4"}}, MaxImports)]

RingsAfter(ring) ==
    {ring} \cup {Append(ring, PubKey(f)) :
                    f \in {g \in ImportableFprs : \A k \in Range(ring) : k.fpr # g}}

InitAnswered ==
    /\ args = [armor |-> TRUE, home_dir |-> None, passphrase |-> None]
    /\ gpg = Construct(args)
    /\ keyring \in {<<>>, <<Me>>}
    /\ open = {}
    /\ last = [op |-> "construct", before |-> keyring, events |-> <<>>]

ImportKeyAnswered ==
    \E result \in ImportResults, ring \in RingsAfter(keyring) :
        Imported(keyring, <<>>, import_key_after([ring |-> ring, result |-> result]))

NextAnswered == ImportKeyAnswered

SpecAnswered == InitAnswered /\ [][NextAnswered]_vars

(* ------------------------------ the claims ----------------------------- *)
\* The positions of the keyring's entries that a pattern names.
MatchingAt(ring, pattern) == {i \in 1..Len(ring) : Matches(ring[i], pattern)}

FirstAt(S) == CHOOSE i \in S : \A j \in S : i <= j

ImportAnswered == last.op = "import_key"

\* C1: whenever the engine reports a number of considered keys other than 1,
\* import_key raises the ValueError 'Exactly one public key must be provided'
\* with the import result, and the keyring is what it was before the call.
C1_NoPartialImport ==
    (ImportAnswered /\ last.result.considered # 1) =>
        /\ last.outcome = Raise("ValueError", [msg |-> NotOne, detail |-> last.result])
        /\ keyring = last.before

C1_Witness ==
    /\ ImportAnswered
    /\ last.result.considered = 2
    /\ last.result.imported = 2
    /\ last.outcome.kind = "raise"

\* C2: whenever import_key returns, the keyring is the keyring before the
\* call with exactly one entry added, that entry is the returned key, its
\* fingerprint is the first fingerprint of the returned import result, and
\* looking that fingerprint up in this keyring finds the returned key.
C2_SuccessOneEntry ==
    (ImportAnswered /\ last.outcome.kind = "return") =>
        LET key == last.outcome.value[1]
            result == last.outcome.value[2]
            at == MatchingAt(keyring, key.fpr)
        IN  /\ result.imports # <<>>
            /\ key.fpr = result.imports[1].fpr
            /\ keyring = Append(last.before, key)
            /\ \A k \in Range(last.before) : k.fpr # key.fpr
            /\ at # {}
            /\ keyring[FirstAt(at)] = key

C2_Witness ==
    /\ ImportAnswered
    /\ last.outcome.kind = "return"
    /\ Len(last.before) >= 1
    /\ last.outcome.value[1].fpr = "F3"

Decrypting == last.op \in {"decrypt_text", "decrypt_file"}

\* C3: in decrypt_text and decrypt_file, an engine error with code NO_DATA
\* becomes the ValueError 'No encrypted data', every other error of the
\* engine reaches the caller as it is, and no call returns when the engine
\* failed.
C3_DecryptErrors ==
    Decrypting =>
        LET e == last.engine
        IN  /\ (e.kind = "raise" /\ e.exc = "GPGMEError" /\ e.args.code = "NO_DATA")
                  => last.outcome = Raise("ValueError", [msg |-> NoData])
            /\ (e.kind = "raise" /\ ~(e.exc = "GPGMEError" /\ e.args.code = "NO_DATA"))
                  => last.outcome = e
            /\ e.kind = "raise" => last.outcome.kind = "raise"

C3_Witness ==
    /\ last.op = "decrypt_file"
    /\ last.engine = EngineError("BAD_PASSPHRASE")
    /\ last.outcome = last.engine

\* C4: find_key returns the first keyring entry the pattern names when there
\* is one, and raises KeyError with the pattern exactly when there is none.
C4_FirstMatch ==
    last.op = "find_key" =>
        LET at == MatchingAt(keyring, last.pattern)
        IN  IF at = {}
            THEN last.outcome = Raise("KeyError", <<last.pattern>>)
            ELSE /\ last.outcome.kind = "return"
                 /\ last.outcome.value = keyring[FirstAt(at)]
                 /\ Matches(last.outcome.value, last.pattern)

C4_Witness ==
    /\ last.op = "find_key"
    /\ Cardinality(MatchingAt(keyring, last.pattern)) >= 2
    /\ last.outcome.kind = "return"

\* The context that decrypts can unlock a message encrypted for these
\* recipients: to a passphrase, which it holds, or to a key whose secret
\* part its keyring has.
CanUnlock(recipients) ==
    \/ recipients.kind = "none"
    \/ recipients.kind = "key" /\ recipients.key.secret
    \/ /\ recipients.kind \in {"list", "tuple"}
       /\ \/ recipients.elems = <<>>
          \/ \E k \in Range(recipients.elems) : k.secret

C6_ClassificationOrder ==
    ImportAnswered =>
        LET r == last.result
            at == IF r.imports = <<>> THEN {}
                  ELSE MatchingAt(keyring, r.imports[1].fpr)
        IN  IF r.considered # 1
            THEN last.outcome = Raise("ValueError", [msg |-> NotOne, detail |-> r])
            ELSE IF r.imported # 1
            THEN last.outcome = Raise("ValueError", [msg |-> NotValid, detail |-> r])
            ELSE IF at = {}
            THEN /\ last.outcome.kind = "raise"
                 /\ last.outcome.exc = "ValueError"
                 /\ last.outcome.args.detail = r
                 /\ last.outcome.args.msg \notin {NotOne, NotValid}
            ELSE last.outcome = Return(<<keyring[FirstAt(at)], r>>)

C6_Witness ==
    /\ ImportAnswered
    /\ last.result.considered = 1
    /\ last.result.imported = 1
    /\ last.result.imports # <<>>
    /\ MatchingAt(keyring, last.result.imports[1].fpr) = {}
    /\ last.outcome.kind = "raise"

\* C7: after every call no data handle is left acquired, and no call used a
\* handle that was not acquired at that point.
C7_NoBufferLeftOpen ==
    /\ open = {}
    /\ ~UsedWhileReleased(last.events)

\* C8: in every state the context's armor mode, home directory and
\* passphrase callback are the constructor's arguments, and the
\* passphrase-entry mode is loopback exactly when a passphrase provider was
\* given.
C8_ConfigurationFixed ==
    /\ gpg.armor = args.armor
    /\ gpg.home_dir = args.home_dir
    /\ gpg.passphrase_cb = args.passphrase
    /\ gpg.pinentry_mode = "loopback" <=> args.passphrase # None
    /\ gpg.pinentry_mode \in {"loopback", "default"}

C8_Witness ==
    /\ last.op = "import_key"
    /\ keyring # last.before
    /\ args.passphrase = None
    /\ args.home_dir # None
    /\ gpg.pinentry_mode = "default"

Encrypting == last.op \in {"encrypt_text", "encrypt_file"}

\* The message an encryption call produced: returned or written to the
\* output file.
Produced == IF last.op = "encrypt_text" THEN last.outcome.value ELSE last.written

\* C9: the engine receives the empty list for None, a one-element list for
\* a single Key, and a list or tuple as it was passed; the message is
\* encrypted to a passphrase exactly when that list is empty, and an
\* explicitly passed empty list is no error of the facade.
C9_RecipientsNormalized ==
    Encrypting =>
        LET r == last.recipients
        IN  /\ r.kind = "none" => last.passed = Several("list", <<>>)
            /\ r.kind = "key" => last.passed = Several("list", <<r.key>>)
            /\ r.kind \in {"list", "tuple"} => last.passed = r
            /\ last.outcome.kind = "return" =>
                    /\ Produced.pass # None <=> last.passed.elems = <<>>
                    /\ Produced.recips = {k.fpr : k \in Range(last.passed.elems)}
            /\ (r.kind \in {"list", "tuple"} /\ r.elems = <<>>
                    /\ last.outcome.kind = "raise")
                  => last.outcome.exc = "GPGMEError"

C9_Witness ==
    /\ last.op = "encrypt_text"
    /\ last.recipients = Several("list", <<>>)
    /\ last.outcome.kind = "return"
    /\ last.outcome.value.pass # None

\* C10: a step changes the keyring only if it is a call of import_key, and
\* across any other step find_key answers every pattern as before.
C10_OnlyImportChangesKeyring ==
    [][/\ keyring' # keyring => last'.op = "import_key"
       /\ last'.op # "import_key" =>
            \A p \in Patterns : find_key(keyring', p) = find_key(keyring, p)]_vars

C10_Witness ==
    /\ last.op = "export_key"
    /\ last.outcome.kind = "return"
    /\ last.outcome.value.kind = "keys"
    /\ Len(last.before) >= 2
    /\ keyring = last.before

====
